---- MODULE Spec2Model ----
(***************************************************************************)
(* Duct Size Calculator (src/app.py): the Streamlit script as a state      *)
(* machine.  One action is one run of the script, triggered by one widget  *)
(* interaction; the state kept between runs is st.session_state.df and the *)
(* values of the option widgets.  A row widget is created with the row's   *)
(* current value as its default (value=str(row[...]), value=int(row[...])) *)
(* and so returns the value stored in df unless the user has just changed  *)
(* it; the table is therefore the only row state.                          *)
(*                                                                         *)
(* Three specifications: Spec is the script as the user drives it;         *)
(* SpecCalc takes the Calculations section as a function of the values it  *)
(* reads (rows, list kind, wall thickness, override), over inputs that     *)
(* need not come from the widgets; SpecPick calls pick_recommended on any  *)
(* catalog.                                                                *)
(*                                                                         *)
(* Numbers.  The script computes with floats; the model computes with the  *)
(* exact real values, kept in integers:                                    *)
(*   - lengths (cable OD, listed size, wall thickness) are whole mm;       *)
(*   - areas are in units of pi/4 mm^2, so circle_area(d) = d*d;           *)
(*   - fill factors are in hundredths (0.53 is 53);                        *)
(*   - a diameter obtained from a square root is the surd                  *)
(*       [off, num, den]  standing for  off + sqrt(num / den);             *)
(*   - a percentage is the fraction [num, den] standing for num / den;     *)
(*   - a value rounded to one decimal is kept in tenths.                   *)
(* A nullable value (Python's None, or a NaN that ends as None) is the     *)
(* empty tuple, a present value v is <<v>>.                                *)
(***************************************************************************)
EXTENDS Integers, Sequences, FiniteSets, TLC

VARIABLES
    df,              \* st.session_state.df: sequence of rows [od, qty]
    list_kind,       \* radio "Your available duct list represents:"
    wall_thk,        \* number_input "Assumed duct wall thickness (mm)"
    override_fill,   \* checkbox "Override auto fill factor (%)"
    custom_fill,     \* slider "Fill factor (%)", None when not overriding
    res,             \* what the Calculations section of the last run produced
    pc,              \* position of the run
    size_needed,     \* arguments of a call of pick_recommended
    available_sizes,
    picked           \* its result

vars == <<df, list_kind, wall_thk, override_fill, custom_fill, res, pc,
          size_needed, available_sizes, picked>>

----------------------------------------------------------------------------
(* Nullable values *)

None == <<>>

Some(v) == <<v>>

Val(o) == o[1]

Max(a, b) == IF a >= b THEN a ELSE b

----------------------------------------------------------------------------
(* Config & constants *)

DUCT_SIZES == <<250, 225, 200, 180, 160, 125, 110, 60>>

OD_KIND == "Outer Diameter (OD)"

ID_KIND == "Inner Diameter (ID)"

----------------------------------------------------------------------------
(* Helpers *)

\* variant: the single-cable row of the table left out
compute_fill_factor_no_single(total_qty) ==
    IF total_qty <= 0 THEN None
    ELSE IF total_qty <= 2 THEN Some(31)
    ELSE Some(40)

compute_fill_factor(total_qty) ==
    IF total_qty <= 0 THEN None
    ELSE IF total_qty = 1 THEN Some(53)
    ELSE IF total_qty = 2 THEN Some(31)
    ELSE Some(40)

\* pi * (d/2)^2, in units of pi/4 mm^2
circle_area(d_mm) == d_mm * d_mm

\* 2 * sqrt((area / fill_factor) / pi) = sqrt(100 * area / fill_factor) with
\* the area in pi/4 mm^2 and fill_factor in hundredths.
required_id_mm(total_cable_area_mm2, fill_factor) ==
    [off |-> 0, num |-> 100 * total_cable_area_mm2, den |-> fill_factor]

\* x + k for a surd x and a whole number k
SurdPlus(x, k) == [x EXCEPT !.off = @ + k]

\* s >= x for a whole number s and a surd x with x.num >= 0, x.den > 0:
\* s >= off + sqrt(num/den)  iff  s - off >= 0 and (s - off)^2 * den >= num.
Geq(s, x) ==
    /\ s - x.off >= 0
    /\ (s - x.off) * (s - x.off) * x.den >= x.num

RECURSIVE Insert(_, _)
Insert(s, sortedSeq) ==
    IF sortedSeq = <<>> THEN <<s>>
    ELSE IF s <= Head(sortedSeq) THEN <<s>> \o sortedSeq
    ELSE <<Head(sortedSeq)>> \o Insert(s, Tail(sortedSeq))

\* Python's sorted(): ascending
RECURSIVE sorted(_)
sorted(seq) ==
    IF seq = <<>> THEN <<>> ELSE Insert(Head(seq), sorted(Tail(seq)))

\* the for loop of pick_recommended: the first element that is >= needed
RECURSIVE FirstGeq(_, _)
FirstGeq(seq, needed) ==
    IF seq = <<>> THEN None
    ELSE IF Geq(Head(seq), needed) THEN Some(Head(seq))
    ELSE FirstGeq(Tail(seq), needed)

\* variant: the scan without sorted()
pick_recommended_unsorted(needed, sizes) == FirstGeq(sizes, needed)

pick_recommended(needed, sizes) == FirstGeq(sorted(sizes), needed)

----------------------------------------------------------------------------
(* Calculations (one run of lines 160-252) *)

\* keep only valid rows
ValidRow(row) == row.od > 0 /\ row.qty > 0

ValidRows(rows) == SelectSeq(rows, ValidRow)

RECURSIVE SumQty(_)
SumQty(rows) ==
    IF rows = <<>> THEN 0 ELSE Head(rows).qty + SumQty(Tail(rows))

RECURSIVE SumArea(_)
SumArea(rows) ==
    IF rows = <<>> THEN 0
    ELSE circle_area(Head(rows).od) * Head(rows).qty + SumArea(Tail(rows))

\* Python truthiness of custom_fill: None and 0 are false
Truthy(o) == o # None /\ Val(o) # 0

\* fill_factor = (custom_fill / 100.0) if override_fill and custom_fill else auto_fill
ResolveFillFactor(override, custom, auto_fill) ==
    IF override /\ Truthy(custom) THEN Some(Val(custom)) ELSE auto_fill

\* variant: only the None test
InvalidFill_none_only(fill_factor) == fill_factor = None

\* fill_factor is None or fill_factor <= 0
InvalidFill(fill_factor) == fill_factor = None \/ Val(fill_factor) <= 0

\* variant: without max(..., 0.0)
internal_d_from_listed_unclamped(listed_size, kind, wall) ==
    IF kind = OD_KIND THEN listed_size - 2 * wall ELSE listed_size

\* max(listed_size - 2.0 * wall_thk, 0.0) in OD mode, listed_size in ID mode
internal_d_from_listed(listed_size, kind, wall) ==
    IF kind = OD_KIND THEN Max(listed_size - 2 * wall, 0) ELSE listed_size

\* variant: the wall counted once
ReqOd_single_wall(req_id, kind, wall) ==
    IF kind = OD_KIND THEN Some(SurdPlus(req_id, wall)) ELSE None

\* req_od = req_id + 2.0 * wall_thk in OD mode, None in ID mode
ReqOd(req_id, kind, wall) ==
    IF kind = OD_KIND THEN Some(SurdPlus(req_id, 2 * wall)) ELSE None

\* variant: the internal diameter compared in both modes
NeededForCompare_always_id(req_id, req_od, kind) == req_id

\* needed_for_compare = req_od in OD mode, req_id in ID mode
NeededForCompare(req_id, req_od, kind) ==
    IF kind = OD_KIND THEN Val(req_od) ELSE req_id

\* (total_cable_area / circle_area(internal_d)) * 100.0 for the recommended size
ActualFillPct(recommended, kind, wall, area) ==
    IF recommended = None THEN None
    ELSE LET internal_d == internal_d_from_listed(Val(recommended), kind, wall)
         IN  IF internal_d > 0
             THEN Some([num |-> 100 * area, den |-> circle_area(internal_d)])
             ELSE None

\* n / d rounded to the nearest whole number, a tie going to the even one
\* (n >= 0, d > 0): round(x, 1) of x = n / (10 * d), in tenths.
RoundHalfEven(n, d) ==
    LET q == n \div d
        r == n % d
    IN  IF 2 * r < d THEN q
        ELSE IF 2 * r > d THEN q + 1
        ELSE IF q % 2 = 0 THEN q ELSE q + 1

\* One row of the overview table.  "Assumed ID (mm)" is round(id_mm, 2),
\* which leaves a whole number of mm as it is; "Fill (%)" is
\* round(fill_pct, 1), kept in tenths, or None.
TableRow(s, kind, wall, area) ==
    LET id_mm    == internal_d_from_listed(s, kind, wall)
        area_mm2 == IF id_mm > 0 THEN Some(circle_area(id_mm)) ELSE None
    IN  [listed  |-> s,
         used_as |-> kind,
         id_mm   |-> id_mm,
         fill    |-> IF area_mm2 # None /\ Val(area_mm2) > 0
                     THEN Some(RoundHalfEven(1000 * area, Val(area_mm2)))
                     ELSE None]

\* variant: the rows in the order DUCT_SIZES lists them
Table_listed_order(kind, wall, area) ==
    [i \in 1..Len(DUCT_SIZES) |-> TableRow(DUCT_SIZES[i], kind, wall, area)]

\* for s in sorted(DUCT_SIZES): table.append({...})
Table(kind, wall, area) ==
    LET sizes == sorted(DUCT_SIZES)
    IN  [i \in 1..Len(sizes) |-> TableRow(sizes[i], kind, wall, area)]

\* What a run leaves when nothing was computed
NoResult(outcome) ==
    [outcome |-> outcome, total_qty |-> None, total_cable_area |-> None,
     auto_fill |-> None, fill_factor |-> None, req_id |-> None,
     req_od |-> None, needed_for_compare |-> None, recommended |-> None,
     actual_fill_pct |-> None, notice |-> None, table |-> None]

Calculations(rows, kind, wall, override, custom) ==
    IF Len(rows) = 0
    THEN \* pd.DataFrame([]) has no columns: df["Cable OD (mm)"] raises KeyError
         NoResult("exception")
    ELSE
    LET valid            == ValidRows(rows)
        total_qty        == SumQty(valid)
        total_cable_area == SumArea(valid)
        auto_fill        == compute_fill_factor(total_qty)
        fill_factor      == ResolveFillFactor(override, custom, auto_fill)
        shown == [NoResult("info") EXCEPT
                     !.total_qty = Some(total_qty),
                     !.total_cable_area = Some(total_cable_area),
                     !.auto_fill = auto_fill,
                     !.fill_factor = fill_factor]
    IN  IF total_qty <= 0 THEN shown
        ELSE IF InvalidFill(fill_factor)
        THEN [shown EXCEPT !.outcome = "invalid_fill"]
        ELSE
        LET req_id      == required_id_mm(total_cable_area, Val(fill_factor))
            req_od      == ReqOd(req_id, kind, wall)
            needed      == NeededForCompare(req_id, req_od, kind)
            recommended == pick_recommended(needed, DUCT_SIZES)
        IN  [shown EXCEPT
                !.outcome = "sized",
                !.req_id = Some(req_id),
                !.req_od = req_od,
                !.needed_for_compare = Some(needed),
                !.recommended = recommended,
                !.actual_fill_pct =
                    ActualFillPct(recommended, kind, wall, total_cable_area),
                !.notice = IF recommended = None
                           THEN Some("no_suitable_size") ELSE Some("success"),
                !.table = Some(Table(kind, wall, total_cable_area))]

----------------------------------------------------------------------------
(* Bounds and input sets *)

MaxRows == 2

MaxLen == 3

\* what the user may type into a "Cable i OD (mm)" text input
OdTexts == {"0", "1.0", "40", "260", "abc"}

\* float(od): the number, or None for the ValueError
float(text) ==
    CASE text = "0"   -> Some(0)
      [] text = "1.0" -> Some(1)
      [] text = "40"  -> Some(40)
      [] text = "260" -> Some(260)
      [] OTHER        -> None

\* try: od_val = float(od)  except: od_val = 0.0
od_val(text) == IF float(text) = None THEN 0 ELSE Val(float(text))

\* positions of the "Cable i Qty" slider (1..20) the model moves it to
QtyChoices == {1, 2}

\* values of the wall thickness input (min_value 0.0, default 10.0)
WallChoices == {0, 10, 40}

\* positions of the "Fill factor (%)" slider (5..90, default 40)
FillChoices == {5, 40}

ListKinds == {OD_KIND, ID_KIND}

RECURSIVE SeqsUpTo(_, _)
SeqsUpTo(S, n) ==
    IF n = 0 THEN {<<>>}
    ELSE LET shorter == SeqsUpTo(S, n - 1)
         IN  shorter \cup {Append(q, x) : q \in shorter, x \in S}

\* rows handed to the Calculations section when it is taken as a function of
\* its inputs: entries need not come from the widgets
CalcRows == [od : {-5, 0, 40, 260}, qty : {-1, 0, 1, 2}]

\* override settings handed to the Calculations section, likewise
CalcOverrides ==
    {<<FALSE, None>>} \cup {<<TRUE, Some(c)>> : c \in {-10, 0, 5, 40}}

\* catalogs and required values handed to pick_recommended
CatalogSizes == {60, 110, 250}

Catalogs == SeqsUpTo(CatalogSizes, MaxLen) \cup {DUCT_SIZES}

Needs ==
    {[off |-> o, num |-> f[1], den |-> f[2]] :
        o \in {0, 20},
        f \in {<<0, 1>>, <<3600, 1>>, <<1000000, 53>>, <<10000000, 31>>}}

NoCall ==
    /\ size_needed = [off |-> 0, num |-> 0, den |-> 1]
    /\ available_sizes = <<>>
    /\ picked = None

----------------------------------------------------------------------------
(* The script: one action per interaction, each a whole run *)

\* lines 160-252 on the state the run's UI section left
Rerun ==
    /\ res' = Calculations(df', list_kind', wall_thk', override_fill', custom_fill')
    /\ UNCHANGED <<pc, size_needed, available_sizes, picked>>

\* first run: the table is initialised to one row, the widgets to their defaults
Init ==
    /\ df = <<[od |-> 1, qty |-> 1]>>
    /\ list_kind = OD_KIND
    /\ wall_thk = 10
    /\ override_fill = FALSE
    /\ custom_fill = None
    /\ res = Calculations(df, list_kind, wall_thk, override_fill, custom_fill)
    /\ pc = "idle"
    /\ NoCall

\* the user types into the OD text input of row i
EditOd(i, text) ==
    /\ pc = "idle"
    /\ df' = [df EXCEPT ![i].od = od_val(text)]
    /\ UNCHANGED <<list_kind, wall_thk, override_fill, custom_fill>>
    /\ Rerun

\* the user moves the Qty slider of row i
EditQty(i, q) ==
    /\ pc = "idle"
    /\ df' = [df EXCEPT ![i].qty = q]
    /\ UNCHANGED <<list_kind, wall_thk, override_fill, custom_fill>>
    /\ Rerun

RemoveAt(seq, i) == SubSeq(seq, 1, i - 1) \o SubSeq(seq, i + 1, Len(seq))

\* "Delete i": the row is not appended to updated_rows
Delete(i) ==
    /\ pc = "idle"
    /\ df' = RemoveAt(df, i)
    /\ UNCHANGED <<list_kind, wall_thk, override_fill, custom_fill>>
    /\ Rerun

\* "Add Row": appends {OD 0.0, Qty 1} and reruns.  On a table with no rows
\* the frame has no columns, df.loc[0] = ... raises ValueError and the run
\* ends there.
AddRow ==
    /\ pc = "idle"
    /\ Len(df) < MaxRows
    /\ df' = IF Len(df) = 0 THEN df ELSE Append(df, [od |-> 0, qty |-> 1])
    /\ UNCHANGED <<list_kind, wall_thk, override_fill, custom_fill>>
    /\ Rerun

\* "Reset table"
ResetTable ==
    /\ pc = "idle"
    /\ df' = <<[od |-> 0, qty |-> 1]>>
    /\ UNCHANGED <<list_kind, wall_thk, override_fill, custom_fill>>
    /\ Rerun

SetListKind(k) ==
    /\ pc = "idle"
    /\ list_kind' = k
    /\ UNCHANGED <<df, wall_thk, override_fill, custom_fill>>
    /\ Rerun

SetWallThk(w) ==
    /\ pc = "idle"
    /\ wall_thk' = w
    /\ UNCHANGED <<df, list_kind, override_fill, custom_fill>>
    /\ Rerun

\* the checkbox: the slider appears at its default 40, or disappears
ToggleOverride ==
    /\ pc = "idle"
    /\ override_fill' = ~override_fill
    /\ custom_fill' = IF override_fill' THEN Some(40) ELSE None
    /\ UNCHANGED <<df, list_kind, wall_thk>>
    /\ Rerun

SetCustomFill(c) ==
    /\ pc = "idle"
    /\ override_fill
    /\ custom_fill' = Some(c)
    /\ UNCHANGED <<df, list_kind, wall_thk, override_fill>>
    /\ Rerun

Next ==
    \/ \E i \in 1..Len(df), text \in OdTexts : EditOd(i, text)
    \/ \E i \in 1..Len(df), q \in QtyChoices : EditQty(i, q)
    \/ \E i \in 1..Len(df) : Delete(i)
    \/ AddRow
    \/ ResetTable
    \/ \E k \in ListKinds : SetListKind(k)
    \/ \E w \in WallChoices : SetWallThk(w)
    \/ ToggleOverride
    \/ \E c \in FillChoices : SetCustomFill(c)

Spec == Init /\ [][Next]_vars

----------------------------------------------------------------------------
(* The Calculations section as a function of its inputs *)

InitCalc ==
    /\ df \in SeqsUpTo(CalcRows, MaxRows)
    /\ list_kind \in ListKinds
    /\ wall_thk \in WallChoices
    /\ \E o \in CalcOverrides : override_fill = o[1] /\ custom_fill = o[2]
    /\ res = NoResult("pending")
    /\ pc = "input"
    /\ NoCall

Calculate ==
    /\ pc = "input"
    /\ pc' = "done"
    /\ res' = Calculations(df, list_kind, wall_thk, override_fill, custom_fill)
    /\ UNCHANGED <<df, list_kind, wall_thk, override_fill, custom_fill,
                   size_needed, available_sizes, picked>>

NextCalc == Calculate

SpecCalc == InitCalc /\ [][NextCalc]_vars

----------------------------------------------------------------------------
(* pick_recommended called on any catalog *)

InitPick ==
    /\ df = <<>>
    /\ list_kind = OD_KIND
    /\ wall_thk = 10
    /\ override_fill = FALSE
    /\ custom_fill = None
    /\ res = NoResult("pending")
    /\ pc = "args"
    /\ size_needed \in Needs
    /\ available_sizes \in Catalogs
    /\ picked = None

CallPick ==
    /\ pc = "args"
    /\ pc' = "returned"
    /\ picked' = pick_recommended(size_needed, available_sizes)
    /\ UNCHANGED <<df, list_kind, wall_thk, override_fill, custom_fill, res,
                   size_needed, available_sizes>>

NextPick == CallPick

SpecPick == InitPick /\ [][NextPick]_vars

----------------------------------------------------------------------------
(* Vocabulary of the properties, stated apart from the operators above *)

Elems(seq) == {seq[i] : i \in 1..Len(seq)}

Count(seq, x) == Cardinality({i \in 1..Len(seq) : seq[i] = x})

SameListing(a, b) ==
    /\ Len(a) = Len(b)
    /\ \A x \in Elems(a) \cup Elems(b) : Count(a, x) = Count(b, x)

\* the spec's table of the auto fill factor, in hundredths
AutoFillOf(q) ==
    CASE q <= 0 -> None
      [] q = 1  -> Some(53)
      [] q = 2  -> Some(31)
      [] OTHER  -> Some(40)

RowIsValid(r) == r.od > 0 /\ r.qty > 0

RECURSIVE QtyOverValid(_)
QtyOverValid(rows) ==
    IF rows = <<>> THEN 0
    ELSE (IF RowIsValid(Head(rows)) THEN Head(rows).qty ELSE 0)
         + QtyOverValid(Tail(rows))

RECURSIVE AreaOverValid(_)
AreaOverValid(rows) ==
    IF rows = <<>> THEN 0
    ELSE (IF RowIsValid(Head(rows))
          THEN Head(rows).qty * Head(rows).od * Head(rows).od ELSE 0)
         + AreaOverValid(Tail(rows))

NoValidRow == \A i \in 1..Len(df) : ~RowIsValid(df[i])

\* a step that removes one invalid row from the table, or adds one
InvalidRowChange ==
    \/ \E i \in 1..Len(df) : ~RowIsValid(df[i]) /\ df' = RemoveAt(df, i)
    \/ \E i \in 1..Len(df') : ~RowIsValid(df'[i]) /\ df = RemoveAt(df', i)

Computed == res.outcome \in {"info", "invalid_fill", "sized"}

Sized == res.outcome = "sized"

NothingSized ==
    /\ res.req_id = None
    /\ res.req_od = None
    /\ res.recommended = None
    /\ res.actual_fill_pct = None
    /\ res.table = None

\* internal diameter of a listed size under the current options
ResolvedId(s) ==
    IF list_kind = ID_KIND THEN s
    ELSE IF s - 2 * wall_thk > 0 THEN s - 2 * wall_thk ELSE 0

\* listed sizes whose resolved internal diameter reaches the required one
Fitting == {s \in Elems(DUCT_SIZES) : Geq(ResolvedId(s), Val(res.req_id))}

Smallest(S) == CHOOSE s \in S : \A t \in S : s <= t

----------------------------------------------------------------------------
(* C1: pick_recommended is sound and minimal on every catalog, in any      *)
(* order: a returned size is a member of the catalog, is >= the required   *)
(* value, no catalog member that is >= the required value is smaller, and  *)
(* every other listing of the same catalog gives the same result.          *)
C1_PickSoundMinimal ==
    pc = "returned" =>
        /\ picked # None =>
              /\ Val(picked) \in Elems(available_sizes)
              /\ Geq(Val(picked), size_needed)
              /\ \A s \in Elems(available_sizes) :
                    Geq(s, size_needed) => Val(picked) <= s
        /\ \A c \in Catalogs :
              SameListing(c, available_sizes)
                  => pick_recommended(size_needed, c) = picked

C1_Witness ==
    /\ pc = "returned"
    /\ available_sizes = DUCT_SIZES
    /\ picked = Some(160)

(* C2: the auto fill factor is null for q <= 0, 0.53 for 1, 0.31 for 2 and *)
(* 0.40 for 3 or more; without an override the fill factor used is this    *)
(* value for the total quantity over the valid rows.                       *)
C2_AutoFillFactor ==
    /\ \A q \in -3..25 : compute_fill_factor(q) = AutoFillOf(q)
    /\ (pc = "done" /\ Computed) =>
          /\ res.total_qty = Some(QtyOverValid(df))
          /\ res.auto_fill = AutoFillOf(QtyOverValid(df))
          /\ ~override_fill => res.fill_factor = AutoFillOf(QtyOverValid(df))

C2_Witness ==
    /\ pc = "done"
    /\ ~override_fill
    /\ Len(df) = 2
    /\ ~RowIsValid(df[1])
    /\ res.fill_factor = Some(53)

C4_FillFactorGuard ==
    pc = "done" =>
        /\ res.req_id # None =>
              /\ res.fill_factor # None
              /\ Val(res.fill_factor) > 0
              /\ Val(res.req_id).den = Val(res.fill_factor)
        /\ (/\ res.total_qty # None
            /\ Val(res.total_qty) > 0
            /\ (res.fill_factor = None \/ Val(res.fill_factor) <= 0)) =>
              (res.outcome = "invalid_fill" /\ NothingSized)

C4_Witness ==
    /\ pc = "done"
    /\ res.outcome = "invalid_fill"
    /\ Val(res.total_qty) > 0
    /\ Val(res.fill_factor) < 0

(* C5: with total quantity > 0, a valid fill factor and a required         *)
(* comparison diameter above every catalog size, the result is "no         *)
(* suitable size": no recommendation, no actual fill, and still a table of *)
(* one row per catalog entry in ascending order of listed size, each with  *)
(* the fill of its own internal diameter.                                  *)
C5_NoSuitableSize ==
    /\ (/\ Computed
        /\ Val(res.total_qty) > 0
        /\ res.fill_factor # None
        /\ Val(res.fill_factor) > 0) => Sized
    /\ (/\ Sized
        /\ \A s \in Elems(DUCT_SIZES) : ~Geq(s, Val(res.needed_for_compare))) =>
          /\ res.recommended = None
          /\ res.actual_fill_pct = None
          /\ res.notice = Some("no_suitable_size")
          /\ res.table # None
          /\ LET t == Val(res.table)
             IN  /\ Len(t) = Len(DUCT_SIZES)
                 /\ {t[i].listed : i \in 1..Len(t)} = Elems(DUCT_SIZES)
                 /\ \A i \in 1..Len(t) - 1 : t[i].listed < t[i + 1].listed
                 /\ \A i \in 1..Len(t) :
                       t[i].id_mm > 0 => t[i].fill # None
                 /\ \A i \in 1..Len(t), j \in 1..Len(t) :
                       (t[i].fill # None /\ t[j].fill # None /\ i < j)
                           => Val(t[i].fill) >= Val(t[j].fill)

C5_Witness ==
    /\ Sized
    /\ res.recommended = None
    /\ res.table # None
    /\ Val(res.table)[1].fill = None
    /\ Val(res.table)[8].fill # None

(* C6: when no row has both OD > 0 and quantity > 0, nothing is            *)
(* calculated: the outcome is the neutral "add at least one cable" prompt, *)
(* never an error, whatever the options.                                   *)
C6_EmptyInputPrompt ==
    NoValidRow => (res.outcome = "info" /\ NothingSized)

(* C7: totalQuantity and totalCableArea are sums over the valid rows only, *)
(* so a run that adds or removes one invalid row leaves the total          *)
(* quantity, the total cable area, the fill factor used and the            *)
(* recommended size as they were.                                          *)
C7_InvalidRowsExcluded ==
    [][InvalidRowChange =>
          /\ res'.total_qty = res.total_qty
          /\ res'.total_cable_area = res.total_cable_area
          /\ res'.fill_factor = res.fill_factor
          /\ res'.recommended = res.recommended]_vars

(* C8 as stated: each table row's internal diameter is the listed size in  *)
(* ID mode and max(listed - 2*wall, 0) in OD mode; a row whose internal    *)
(* diameter is <= 0 has a null fill and every other row has the fill       *)
(* totalCableArea / circleArea(internalDiameter) * 100.                    *)
C8_FillTableExact ==
    Sized =>
        \A i \in 1..Len(Val(res.table)) :
            LET row == Val(res.table)[i]
            IN  /\ row.id_mm = ResolvedId(row.listed)
                /\ row.id_mm >= 0
                /\ row.id_mm <= 0 => row.fill = None
                /\ row.id_mm > 0 =>
                      /\ row.fill # None
                      /\ Val(row.fill) * row.id_mm * row.id_mm
                             = 1000 * Val(res.total_cable_area)

(* C8 amended: as above, the fill of a row with internal diameter > 0      *)
(* being that percentage rounded to one decimal place.                     *)
C8_FillTableRounded ==
    Sized =>
        \A i \in 1..Len(Val(res.table)) :
            LET row  == Val(res.table)[i]
                area == row.id_mm * row.id_mm
                diff == Val(row.fill) * area - 1000 * Val(res.total_cable_area)
            IN  /\ row.id_mm = ResolvedId(row.listed)
                /\ row.id_mm >= 0
                /\ row.id_mm <= 0 => row.fill = None
                /\ row.id_mm > 0 =>
                      /\ row.fill # None
                      /\ 2 * diff <= area
                      /\ -2 * diff <= area

C8_Witness ==
    /\ Sized
    /\ list_kind = OD_KIND
    /\ wall_thk = 40
    /\ Val(res.table)[1].fill = None
    /\ Val(res.table)[2].fill # None
    /\ Val(Val(res.table)[2].fill) * 900 # 1000 * Val(res.total_cable_area)

(* C9: a recommended entry has a resolved internal diameter > 0 and >= the *)
(* required internal diameter; the actual fill percent is present exactly  *)
(* when a size is recommended and never exceeds the fill factor used       *)
(* times 100.                                                              *)
C9_RecommendedFits ==
    Sized =>
        /\ (res.actual_fill_pct # None) <=> (res.recommended # None)
        /\ res.recommended # None =>
              /\ ResolvedId(Val(res.recommended)) > 0
              /\ Geq(ResolvedId(Val(res.recommended)), Val(res.req_id))
              /\ Val(res.actual_fill_pct).num
                     <= Val(res.fill_factor) * Val(res.actual_fill_pct).den

C9_Witness ==
    /\ Sized
    /\ list_kind = OD_KIND
    /\ wall_thk = 40
    /\ res.recommended = Some(180)
    /\ res.actual_fill_pct # None

(* C10: in OD mode the value compared with the listed sizes is the         *)
(* required internal diameter + 2*wall and it is reported as the required  *)
(* outer diameter; in ID mode it is the required internal diameter and the *)
(* required outer diameter is null; either way the recommended entry is    *)
(* the smallest listed size whose resolved internal diameter is >= the     *)
(* required internal diameter, and null exactly when there is none.        *)
C10_ComparisonAxis ==
    Sized =>
        /\ list_kind = OD_KIND =>
              /\ res.req_od # None
              /\ Val(res.req_od).off = Val(res.req_id).off + 2 * wall_thk
              /\ Val(res.req_od).num = Val(res.req_id).num
              /\ Val(res.req_od).den = Val(res.req_id).den
              /\ res.needed_for_compare = res.req_od
        /\ list_kind = ID_KIND =>
              /\ res.req_od = None
              /\ res.needed_for_compare = res.req_id
        /\ res.recommended =
              IF Fitting = {} THEN None ELSE Some(Smallest(Fitting))

C10_Witness ==
    /\ Sized
    /\ list_kind = OD_KIND
    /\ wall_thk = 40
    /\ res.recommended = Some(110)
    /\ Fitting # Elems(DUCT_SIZES)

====
